---- MODULE Spec2Model ----
(***************************************************************************)
(* Model of create_assets.py: the colour-set generator of KuaiJi.          *)
(*                                                                         *)
(* A Python str that the program slices (a hex colour) is a sequence of    *)
(* one-character strings; a str that the program only builds or prints     *)
(* (a formatted channel, a path component, a console line) is a string.    *)
(* A float alpha is held in thousandths (1.0 is 1000, 0.06 is 60).         *)
(***************************************************************************)
EXTENDS Integers, Sequences, FiniteSets, TLC

VARIABLES
    colors,       \* the table: the dict of line 6, in insertion order
    fs,           \* the filesystem under assets_path: path -> node
    run,          \* which execution of the script this is: "first" or "second"
    i,            \* position of the loop of line 135 in the table
    pc,           \* the statement the script is at
    exc,          \* the exception that ended the run, "" when none
    light_color,  \* local of create_color_set (lines 92-103)
    dark_color,   \* local of create_color_set (lines 110-127)
    stdout,       \* the lines printed by this run
    fs0,          \* history: the filesystem when this run started
    fsFirst,      \* history: the filesystem when the first run ended
    endFirst,     \* history: how the first run ended ("" while it runs)
    written,      \* history: paths this run wrote, each with the names that wrote it
    hex_color,    \* argument of a stand-alone call of hex_to_rgb
    rgb,          \* what that call returned
    components    \* the returned channels, formatted as lines 97-99 format them

vars == <<colors, fs, run, i, pc, exc, light_color, dark_color, stdout,
          fs0, fsFirst, endFirst, written, hex_color, rgb, components>>

runVars == <<colors, fs, run, i, exc, light_color, dark_color, stdout,
             fs0, fsFirst, endFirst, written>>

(***************************************************************************)
(* Bounds                                                                  *)
(***************************************************************************)
\* number of entries of the table
NumEntries == 2
\* most '#' characters in front of a hex_to_rgb argument
MaxHashes == 2
\* most characters after the '#'s of a hex_to_rgb argument
MaxBody == 7

(***************************************************************************)
(* int(s, 16) and the format specs of lines 96-99                          *)
(***************************************************************************)
UpperDigits == <<"0","1","2","3","4","5","6","7","8","9","A","B","C","D","E","F">>
LowerDigits == <<"0","1","2","3","4","5","6","7","8","9","a","b","c","d","e","f">>

IsHexDigit(c) == \E v \in 1..16 : UpperDigits[v] = c \/ LowerDigits[v] = c
HexVal(c) == (CHOOSE v \in 1..16 : UpperDigits[v] = c \/ LowerDigits[v] = c) - 1

\* str.lstrip('#'): every leading '#' is removed, not only the first
RECURSIVE lstrip(_)
lstrip(s) == IF s # <<>> /\ Head(s) = "#" THEN lstrip(Tail(s)) ELSE s

\* s[a:b] of Python, a and b counted from 0: clipped to the string, never an error
Slice(s, a, b) ==
    LET hi == IF b < Len(s) THEN b ELSE Len(s)
    IN  IF a >= hi THEN <<>> ELSE SubSeq(s, a + 1, hi)

\* str.strip() as int() applies it to its argument
RECURSIVE StripLeft(_)
StripLeft(s) == IF s # <<>> /\ Head(s) = " " THEN StripLeft(Tail(s)) ELSE s
RECURSIVE StripRight(_)
StripRight(s) ==
    IF s # <<>> /\ s[Len(s)] = " " THEN StripRight(SubSeq(s, 1, Len(s) - 1)) ELSE s

RECURSIVE DigitsValue(_)
DigitsValue(s) ==
    IF s = <<>> THEN 0
    ELSE 16 * DigitsValue(SubSeq(s, 1, Len(s) - 1)) + HexVal(s[Len(s)])

\* int(s, 16) for the slices hex_to_rgb takes (at most two characters, so the
\* "0x" prefix and the digit separator "_" can never be part of a valid literal):
\* surrounding blanks are dropped, one sign is accepted, the rest must be a
\* non-empty run of hex digits; anything else raises ValueError.
int16(s) ==
    LET t      == StripRight(StripLeft(s))
        signed == t # <<>> /\ Head(t) \in {"+", "-"}
        digits == IF signed THEN Tail(t) ELSE t
        valid  == digits # <<>> /\ \A k \in 1..Len(digits) : IsHexDigit(digits[k])
    IN  IF ~valid THEN [ok |-> FALSE, value |-> 0]
        ELSE [ok |-> TRUE,
              value |-> IF signed /\ Head(t) = "-" THEN 0 - DigitsValue(digits)
                        ELSE DigitsValue(digits)]

\* a faulty hex_to_rgb that takes the blue channel one character early
hex_to_rgb_overlap(hex) ==
    LET h == lstrip(hex)
        p == [k \in 1..3 |-> int16(Slice(h, IF k = 3 THEN 3 ELSE 2 * (k - 1),
                                            IF k = 3 THEN 5 ELSE 2 * k))]
    IN  IF \A k \in 1..3 : p[k].ok
        THEN [ok |-> TRUE, value |-> [k \in 1..3 |-> p[k].value]]
        ELSE [ok |-> FALSE, value |-> <<>>]

\* hex_to_rgb: ok is FALSE when the call raises ValueError
hex_to_rgb(hex) ==
    LET h == lstrip(hex)
        p == [k \in 1..3 |-> int16(Slice(h, 2 * (k - 1), 2 * k))]
    IN  IF \A k \in 1..3 : p[k].ok
        THEN [ok |-> TRUE, value |-> [k \in 1..3 |-> p[k].value]]
        ELSE [ok |-> FALSE, value |-> <<>>]

RECURSIVE ToHex(_)
ToHex(n) == IF n < 16 THEN UpperDigits[n + 1]
            ELSE ToHex(n \div 16) \o UpperDigits[(n % 16) + 1]

\* f"0x{b:02X}"
FormatHex(b) ==
    "0x" \o (IF b < 0 THEN "-" \o ToHex(0 - b)
             ELSE IF b < 16 THEN "0" \o ToHex(b)
             ELSE ToHex(b))

RECURSIVE ToDec(_)
ToDec(n) == IF n < 10 THEN UpperDigits[n + 1]
            ELSE ToDec(n \div 10) \o UpperDigits[(n % 10) + 1]

\* f"{alpha:.3f}" for an alpha >= 0 held in thousandths
FormatAlpha(a) ==
    ToDec(a \div 1000) \o "." \o UpperDigits[((a \div 100) % 10) + 1]
        \o UpperDigits[((a \div 10) % 10) + 1] \o UpperDigits[(a % 10) + 1]

(***************************************************************************)
(* The table (lines 6-69) and the paths (lines 4, 76, 132)                 *)
(***************************************************************************)
assets_path == "/Users/guo/Documents/iOS/KuaiJi/KuaiJi_IOSApp/KuaiJi/Assets.xcassets"

\* keys of the table, in the order the literal lists them
Names == <<"BrandPrimary", "Background", "Surface", "SurfaceAlt">>

\* "#F6F2EE" and "#0E0E11" of the entry Background; a string int() rejects
BackgroundLight == <<"#", "F", "6", "F", "2", "E", "E">>
BackgroundDark == <<"#", "0", "E", "0", "E", "1", "1">>
MalformedHex == <<"#", "F", "6", "F", "2", "E", "G">>

\* the alpha of the entry CardShadow (0.06) and the default of dict.get (1.0)
ShadowAlpha == 60
DefaultAlpha == 1000

\* the colour definitions a table entry is drawn from: a dict is a function
\* whose domain is the set of keys it holds
Definitions ==
    {[light |-> BackgroundLight, dark |-> BackgroundDark],
     [light |-> MalformedHex, dark |-> BackgroundDark],
     [light |-> BackgroundLight, dark |-> MalformedHex]}
    \cup {[light |-> BackgroundLight, dark |-> BackgroundDark, light_alpha |-> ShadowAlpha],
          [light |-> BackgroundLight, dark |-> BackgroundDark, dark_alpha |-> ShadowAlpha],
          [light |-> BackgroundLight, dark |-> BackgroundDark,
           light_alpha |-> ShadowAlpha, dark_alpha |-> ShadowAlpha]}

Tables ==
    {[k \in 1..NumEntries |-> [name |-> Names[k], def |-> f[k]]] :
        f \in [1..NumEntries -> Definitions]}

\* os.path.join(a, b) for a relative b (a table key is a plain identifier)
join(a, b) == a \o "/" \o b

\* a faulty folder_path that leaves the name out of the path
folder_path_unnamed(name) == join(assets_path, ".colorset")

\* line 76
folder_path(name) == join(assets_path, name \o ".colorset")

\* first argument of open, line 132
contents_path(name) == join(folder_path(name), "Contents.json")

\* a file of the directory that the script does not know of
stray_path(name) == join(folder_path(name), ".DS_Store")

\* a colour set of the catalog that is not in the table
AccentColor == "AccentColor"

(***************************************************************************)
(* The filesystem                                                          *)
(***************************************************************************)
Absent == [kind |-> "absent", data |-> <<>>]
Dir == [kind |-> "dir", data |-> <<>>]
\* a regular file: data is the sequence of documents written to it
File(docs) == [kind |-> "file", data |-> docs]

\* a Contents.json left by an earlier tool: a colour set with no variant
OldContents == [colors |-> <<>>, info |-> [author |-> "xcode", version |-> 1]]

\* what may be at <name>.colorset before the first run: nothing, a regular file,
\* or a directory in use, holding an older Contents.json and a .DS_Store
Priors == {"absent", "notdir", "used"}

PriorFs(n, prior) ==
    (folder_path(n) :>
        (CASE prior = "absent" -> Absent
           [] prior = "notdir" -> File(<<>>)
           [] OTHER -> Dir))
    @@ (contents_path(n) :> (IF prior = "used" THEN File(<<OldContents>>) ELSE Absent))
    @@ (stray_path(n) :> (IF prior = "used" THEN File(<<>>) ELSE Absent))

\* the colour sets under a root: those of the first k keys, and AccentColor
RECURSIVE TableFs(_, _, _)
TableFs(g, k, accent) ==
    IF k = 0 THEN PriorFs(AccentColor, accent)
    ELSE PriorFs(Names[k], g[k]) @@ TableFs(g, k - 1, accent)

\* the root is a catalog in use, or it is missing, or a regular file is in its place
InitialFs ==
    {(assets_path :> Dir) @@ TableFs(g, NumEntries, "used") :
        g \in [1..NumEntries -> Priors]}
    \cup {(assets_path :> root) @@ TableFs([k \in 1..NumEntries |-> "absent"],
                                           NumEntries, "absent") :
            root \in {Absent, File(<<>>)}}

(***************************************************************************)
(* create_color_set (lines 75-133)                                         *)
(***************************************************************************)
\* a local that holds nothing: the call has not bound it, or has returned
None == [none |-> TRUE]

\* dict.get(key, default)
get(d, key, default) == IF key \in DOMAIN d THEN d[key] ELSE default

\* the "color" object of a variant, lines 93-101 and 117-125
Color(channels, alpha) ==
    ("color-space" :> "srgb")
    @@ [components |-> [alpha |-> FormatAlpha(alpha),
                        blue  |-> FormatHex(channels[3]),
                        green |-> FormatHex(channels[2]),
                        red   |-> FormatHex(channels[1])]]

\* lines 88-103, once hex_to_rgb has returned
LightVariant(color_def) ==
    [color |-> Color(hex_to_rgb(color_def.light).value,
                     get(color_def, "light_alpha", DefaultAlpha)),
     idiom |-> "universal"]

\* a faulty DarkVariant that parses the light string again
DarkVariant_light_hex(color_def) ==
    [appearances |-> <<[appearance |-> "luminosity", value |-> "dark"]>>,
     color |-> Color(hex_to_rgb(color_def.light).value,
                     get(color_def, "dark_alpha", DefaultAlpha)),
     idiom |-> "universal"]

\* a faulty DarkVariant that looks up the light alpha again
DarkVariant_light_alpha(color_def) ==
    [appearances |-> <<[appearance |-> "luminosity", value |-> "dark"]>>,
     color |-> Color(hex_to_rgb(color_def.dark).value,
                     get(color_def, "light_alpha", DefaultAlpha)),
     idiom |-> "universal"]

\* lines 106-127, once hex_to_rgb has returned
DarkVariant(color_def) ==
    [appearances |-> <<[appearance |-> "luminosity", value |-> "dark"]>>,
     color |-> Color(hex_to_rgb(color_def.dark).value,
                     get(color_def, "dark_alpha", DefaultAlpha)),
     idiom |-> "universal"]

\* a faulty Contents that appends the light variant only
Contents_light_only(light, dark) ==
    [colors |-> <<light>>, info |-> [author |-> "xcode", version |-> 1]]

\* lines 79-85 and 129-130
Contents(light, dark) ==
    [colors |-> <<light, dark>>, info |-> [author |-> "xcode", version |-> 1]]

\* a faulty OpenWrite that opens the file with mode "a"
OpenWrite_append(node, doc) == File(node.data \o <<doc>>)

\* lines 132-133: mode "w" drops what the file held, json.dump writes one document
OpenWrite(node, doc) == File(<<doc>>)

\* a faulty Raise in which the loop catches the exception and goes on
Raise_caught(e) ==
    /\ exc' = e
    /\ i' = IF i < Len(colors) THEN i + 1 ELSE i
    /\ pc' = IF i < Len(colors) THEN "makedirs" ELSE "done"
    /\ light_color' = None
    /\ dark_color' = None

\* an exception nothing catches: it leaves create_color_set and ends the script
Raise(e) ==
    /\ exc' = e
    /\ i' = i
    /\ pc' = "aborted"
    /\ light_color' = None
    /\ dark_color' = None

name == colors[i].name
color_def == colors[i].def

\* line 135 after line 137: the next entry, or the end of the script
Advance ==
    /\ i' = IF i < Len(colors) THEN i + 1 ELSE i
    /\ pc' = IF i < Len(colors) THEN "makedirs" ELSE "done"

\* lines 76-77: os.makedirs(folder_path, exist_ok=True) makes the directory and
\* the root when they are missing, and keeps a directory that is there
Makedirs ==
    /\ pc = "makedirs"
    /\ \/ /\ fs[assets_path].kind # "file"
          /\ fs[folder_path(name)].kind # "file"
          /\ fs' = [fs EXCEPT ![assets_path] = Dir, ![folder_path(name)] = Dir]
          /\ written' = written \cup {<<folder_path(name), name>>}
                 \cup (IF fs[assets_path].kind = "absent" THEN {<<assets_path, name>>}
                       ELSE {})
          /\ pc' = "light"
          /\ UNCHANGED <<i, exc, light_color, dark_color>>
       \/ /\ fs[folder_path(name)].kind = "file"
          /\ Raise("FileExistsError")
          /\ UNCHANGED <<fs, written>>
       \/ /\ fs[assets_path].kind = "file"
          /\ Raise("NotADirectoryError")
          /\ UNCHANGED <<fs, written>>
       \/ /\ fs[assets_path].kind # "file"
          /\ fs[folder_path(name)].kind = "absent"
          /\ Raise("PermissionError")
          /\ UNCHANGED <<fs, written>>
    /\ UNCHANGED <<colors, run, stdout, fs0, fsFirst, endFirst, hex_color, rgb, components>>

\* lines 88-103
BuildLight ==
    /\ pc = "light"
    /\ \/ /\ hex_to_rgb(color_def.light).ok
          /\ light_color' = LightVariant(color_def)
          /\ pc' = "dark"
          /\ UNCHANGED <<i, exc, dark_color>>
       \/ /\ ~hex_to_rgb(color_def.light).ok
          /\ Raise("ValueError")
    /\ UNCHANGED <<colors, fs, run, stdout, fs0, fsFirst, endFirst, written,
                   hex_color, rgb, components>>

\* lines 106-127
BuildDark ==
    /\ pc = "dark"
    /\ \/ /\ hex_to_rgb(color_def.dark).ok
          /\ dark_color' = DarkVariant(color_def)
          /\ pc' = "write"
          /\ UNCHANGED <<i, exc, light_color>>
       \/ /\ ~hex_to_rgb(color_def.dark).ok
          /\ Raise("ValueError")
    /\ UNCHANGED <<colors, fs, run, stdout, fs0, fsFirst, endFirst, written,
                   hex_color, rgb, components>>

\* a faulty Write that returns without having written the file
Write_skipped ==
    /\ pc = "write"
    /\ pc' = "print"
    /\ light_color' = None
    /\ dark_color' = None
    /\ UNCHANGED <<colors, fs, run, i, exc, stdout, fs0, fsFirst, endFirst, written,
                   hex_color, rgb, components>>

\* lines 129-133: the file is written and create_color_set returns; or open fails
\* and leaves the file as it was; or the write fails (a full disk) after open has
\* emptied the file
Write ==
    /\ pc = "write"
    /\ \/ /\ fs' = [fs EXCEPT ![contents_path(name)] =
                        OpenWrite(@, Contents(light_color, dark_color))]
          /\ written' = written \cup {<<contents_path(name), name>>}
          /\ pc' = "print"
          /\ light_color' = None
          /\ dark_color' = None
          /\ UNCHANGED <<i, exc>>
       \/ /\ Raise("PermissionError")
          /\ UNCHANGED <<fs, written>>
       \/ /\ fs' = [fs EXCEPT ![contents_path(name)] = File(<<>>)]
          /\ written' = written \cup {<<contents_path(name), name>>}
          /\ Raise("OSError")
    /\ UNCHANGED <<colors, run, stdout, fs0, fsFirst, endFirst, hex_color, rgb, components>>

\* line 137, and the loop of line 135 going on or ending
PrintCreated ==
    /\ pc = "print"
    /\ stdout' = Append(stdout, "Created " \o name \o ".colorset")
    /\ Advance
    /\ UNCHANGED <<colors, fs, run, exc, light_color, dark_color, fs0, fsFirst, endFirst,
                   written, hex_color, rgb, components>>

\* the script is started again on what the first run left
Rerun ==
    /\ run = "first"
    /\ pc \in {"done", "aborted"}
    /\ run' = "second"
    /\ fsFirst' = fs
    /\ endFirst' = pc
    /\ i' = 1
    /\ pc' = "makedirs"
    /\ exc' = ""
    /\ stdout' = <<>>
    /\ written' = {}
    /\ UNCHANGED <<colors, fs, light_color, dark_color, fs0, hex_color, rgb, components>>

Init ==
    /\ colors \in Tables
    /\ fs \in InitialFs
    /\ run = "first"
    /\ i = 1
    /\ pc = "makedirs"
    /\ exc = ""
    /\ light_color = None
    /\ dark_color = None
    /\ stdout = <<>>
    /\ fs0 = fs
    /\ fsFirst = fs
    /\ endFirst = ""
    /\ written = {}
    /\ hex_color = <<>>
    /\ rgb = None
    /\ components = None

Next == Makedirs \/ BuildLight \/ BuildDark \/ Write \/ PrintCreated \/ Rerun

Spec == Init /\ [][Next]_vars

(***************************************************************************)
(* hex_to_rgb called on its own, and its result formatted as lines 97-99   *)
(***************************************************************************)
\* the characters an argument is made of after its leading '#'s: a digit, a
\* lower-case and an upper-case hex letter, and a letter that is no hex digit
BodyAlphabet == {"0", "a", "F", "g"}

Hashes(n) == [k \in 1..n |-> "#"]

\* line 89 or 107 alone: the call returns the triple or raises ValueError
Call ==
    /\ pc = "call"
    /\ \/ /\ hex_to_rgb(hex_color).ok
          /\ rgb' = hex_to_rgb(hex_color).value
          /\ pc' = "returned"
       \/ /\ ~hex_to_rgb(hex_color).ok
          /\ rgb' = None
          /\ pc' = "raised"
    /\ UNCHANGED <<runVars, hex_color, components>>

\* lines 97-99 applied to the triple
Format ==
    /\ pc = "returned"
    /\ components' = [red   |-> FormatHex(rgb[1]),
                      green |-> FormatHex(rgb[2]),
                      blue  |-> FormatHex(rgb[3])]
    /\ pc' = "formatted"
    /\ UNCHANGED <<runVars, hex_color, rgb>>

InitHex ==
    /\ \E h \in 0..MaxHashes, n \in 0..MaxBody :
          \E b \in [1..n -> BodyAlphabet] : hex_color = Hashes(h) \o b
    /\ rgb = None
    /\ components = None
    /\ pc = "call"
    /\ colors = <<>>
    /\ fs = <<>>
    /\ run = "first"
    /\ i = 1
    /\ exc = ""
    /\ light_color = None
    /\ dark_color = None
    /\ stdout = <<>>
    /\ fs0 = <<>>
    /\ fsFirst = <<>>
    /\ endFirst = ""
    /\ written = {}

NextHex == Call \/ Format

SpecHex == InitHex /\ [][NextHex]_vars

(***************************************************************************)
(* What the properties are stated with                                     *)
(***************************************************************************)
Range(seq) == {seq[k] : k \in 1..Len(seq)}

\* the argument with one leading '#', when there is one, taken off
Unprefixed(s) == IF s # <<>> /\ Head(s) = "#" THEN Tail(s) ELSE s

\* exactly six hex digits after one optional leading '#'
WellFormed(s) ==
    /\ Len(Unprefixed(s)) = 6
    /\ \A k \in 1..6 : IsHexDigit(Unprefixed(s)[k])

Upper(c) ==
    CASE c = "a" -> "A" [] c = "b" -> "B" [] c = "c" -> "C"
      [] c = "d" -> "D" [] c = "e" -> "E" [] c = "f" -> "F"
      [] OTHER -> c

\* the k-th two-digit group of a well-formed string, in upper case, after "0x"
Group(s, k) == "0x" \o Upper(Unprefixed(s)[2 * k - 1]) \o Upper(Unprefixed(s)[2 * k])

\* the filesystem the run in progress started on
RunStart == IF run = "first" THEN fs0 ELSE fsFirst

ConfirmationLine(n) == "Created " \o n \o ".colorset"

\* the paths inside <n>.colorset that hold something in filesystem f
FilesIn(f, n) == {p \in {contents_path(n), stray_path(n)} : f[p].kind # "absent"}

\* the run in progress has written a whole document to the Contents.json of n
Produced(n) ==
    /\ <<contents_path(n), n>> \in written
    /\ fs[contents_path(n)].kind = "file"
    /\ fs[contents_path(n)].data # <<>>

Descriptor(n) == fs[contents_path(n)].data[Len(fs[contents_path(n)].data)]

\* the run in progress has left everything of entry k as it found it
Untouched(k) ==
    LET n == colors[k].name
    IN  /\ \A p \in {folder_path(n), contents_path(n), stray_path(n)} :
              /\ fs[p] = RunStart[p]
              /\ <<p, n>> \notin written
        /\ ConfirmationLine(n) \notin Range(stdout)

\* "0.060" and "1.000", the texts of the alphas the table and the default give
AlphaText(a) == IF a = ShadowAlpha THEN "0.060" ELSE "1.000"

(***************************************************************************)
(* C1: hex_to_rgb raises for every argument that is not exactly six hex    *)
(* digits after one optional leading '#'.  The code returns a triple for   *)
(* some such arguments: this is the claim as stated, which the code breaks.*)
(***************************************************************************)
C1_MalformedRaises ==
    (pc \in {"returned", "raised", "formatted"} /\ ~WellFormed(hex_color))
        => pc = "raised"

(***************************************************************************)
(* C2: an exception while an entry is processed ends the run at that       *)
(* entry: its confirmation line is not printed, and nothing of a later     *)
(* entry (directory, Contents.json, confirmation line) is produced.        *)
(***************************************************************************)
C2_FailureAbortsRun ==
    exc # "" =>
        /\ pc = "aborted"
        /\ ConfirmationLine(name) \notin Range(stdout)
        /\ \A k \in (i + 1)..Len(colors) : Untouched(k)

C2_Witness ==
    /\ exc = "ValueError"
    /\ pc = "aborted"
    /\ i < Len(colors)

(***************************************************************************)
(* C3: both hex strings are parsed before the directory of the entry is    *)
(* created, so an entry whose hex string fails to parse leaves no          *)
(* directory made for it by the run.  The code makes the directory first:  *)
(* this is the claim as stated, which the code breaks.                     *)
(***************************************************************************)
C3_ParseBeforeDirectory ==
    /\ pc \in {"light", "dark"} => fs[folder_path(name)] = RunStart[folder_path(name)]
    /\ (pc = "aborted" /\ exc = "ValueError")
           => fs[folder_path(name)] = RunStart[folder_path(name)]

(***************************************************************************)
(* C4, as stated: after a run that ends without error every entry has its  *)
(* directory, the directory holds exactly one file, the Contents.json the  *)
(* run wrote, with 2 variants, and there are as many directories as        *)
(* entries.  Fails when the directory held another file before the run.    *)
(***************************************************************************)
C4_ExactlyOneFile ==
    pc = "done" =>
        /\ \A k \in 1..Len(colors) :
              LET n == colors[k].name
              IN  /\ fs[folder_path(n)].kind = "dir"
                  /\ FilesIn(fs, n) = {contents_path(n)}
                  /\ Produced(n)
                  /\ Len(Descriptor(n).colors) = 2
        /\ Cardinality({folder_path(colors[k].name) : k \in 1..Len(colors)}) = Len(colors)

(***************************************************************************)
(* C4, amended: after a run that ends without error every entry has its    *)
(* directory, which holds the Contents.json the run wrote, a single        *)
(* document with 2 variants, and besides it only the files that were       *)
(* there before the run, unchanged; there are as many directories as       *)
(* entries.                                                                *)
(***************************************************************************)
C4_OneDescriptorPerEntry ==
    pc = "done" =>
        /\ \A k \in 1..Len(colors) :
              LET n == colors[k].name
              IN  /\ fs[folder_path(n)].kind = "dir"
                  /\ FilesIn(fs, n) = {contents_path(n)} \cup FilesIn(RunStart, n)
                  /\ fs[stray_path(n)] = RunStart[stray_path(n)]
                  /\ Produced(n)
                  /\ Len(fs[contents_path(n)].data) = 1
                  /\ Len(Descriptor(n).colors) = 2
        /\ Cardinality({folder_path(colors[k].name) : k \in 1..Len(colors)}) = Len(colors)

C4_Witness ==
    /\ pc = "done"
    /\ run = "first"
    /\ \E k \in 1..Len(colors) : fs0[stray_path(colors[k].name)].kind = "file"
    /\ \E k \in 1..Len(colors) : fs0[folder_path(colors[k].name)].kind = "absent"

(***************************************************************************)
(* C5: a second run that completes after a first run that completed leaves *)
(* the filesystem exactly as the first run left it, whatever was there     *)
(* before the first run.                                                   *)
(***************************************************************************)
C5_SecondRunChangesNothing ==
    (run = "second" /\ pc = "done" /\ endFirst = "done") => fs = fsFirst

C5_Witness ==
    /\ run = "second"
    /\ pc = "done"
    /\ endFirst = "done"
    /\ \E k \in 1..Len(colors) : fs0[contents_path(colors[k].name)] = File(<<OldContents>>)
    /\ \E k \in 1..Len(colors) : fs0[contents_path(colors[k].name)] = Absent

(***************************************************************************)
(* C6: for a well-formed argument (six hex digits in any case, with or     *)
(* without one leading '#') hex_to_rgb returns three integers in 0..255,   *)
(* and formatting them as 0x and two upper-case digits gives back the      *)
(* first, second and third two-digit group in upper case, as red, green,   *)
(* blue.                                                                   *)
(***************************************************************************)
C6_ParseFormatRoundTrip ==
    (pc \in {"returned", "raised", "formatted"} /\ WellFormed(hex_color)) =>
        /\ pc # "raised"
        /\ \A k \in 1..3 : rgb[k] \in 0..255
        /\ pc = "formatted" =>
              /\ components.red = Group(hex_color, 1)
              /\ components.green = Group(hex_color, 2)
              /\ components.blue = Group(hex_color, 3)

C6_Witness ==
    /\ pc = "formatted"
    /\ WellFormed(hex_color)
    /\ Head(hex_color) = "#"
    /\ {"0", "a", "F"} \subseteq Range(hex_color)
    /\ components.red # components.blue

(***************************************************************************)
(* C7: every descriptor the run writes lists the light variant first and   *)
(* the dark variant second; the first has the channels of the entry's      *)
(* light string and no appearance tag, the second the channels of the      *)
(* dark string and exactly the tag luminosity = dark; both have the colour *)
(* space srgb and the idiom universal.                                     *)
(***************************************************************************)
C7_LightThenDark ==
    \A k \in 1..Len(colors) :
        LET n == colors[k].name
            d == colors[k].def
        IN  Produced(n) =>
              LET light == Descriptor(n).colors[1]
                  dark  == Descriptor(n).colors[2]
              IN  /\ Len(Descriptor(n).colors) = 2
                  /\ "appearances" \notin DOMAIN light
                  /\ dark.appearances = <<[appearance |-> "luminosity", value |-> "dark"]>>
                  /\ \A v \in {light, dark} :
                        /\ v.color["color-space"] = "srgb"
                        /\ v.idiom = "universal"
                  /\ light.color.components.red = Group(d.light, 1)
                  /\ light.color.components.green = Group(d.light, 2)
                  /\ light.color.components.blue = Group(d.light, 3)
                  /\ dark.color.components.red = Group(d.dark, 1)
                  /\ dark.color.components.green = Group(d.dark, 2)
                  /\ dark.color.components.blue = Group(d.dark, 3)

C7_Witness ==
    /\ pc = "print"
    /\ Produced(name)
    /\ color_def.light # color_def.dark

(***************************************************************************)
(* C8: the alpha of the light variant is the text of light_alpha when the  *)
(* entry supplies it and "1.000" otherwise, the alpha of the dark variant  *)
(* is the text of dark_alpha when the entry supplies it and "1.000"        *)
(* otherwise, each independently of the other.                             *)
(***************************************************************************)
C8_AlphaPerVariant ==
    \A k \in 1..Len(colors) :
        LET n == colors[k].name
            d == colors[k].def
        IN  Produced(n) =>
              /\ Descriptor(n).colors[1].color.components.alpha =
                     (IF "light_alpha" \in DOMAIN d THEN AlphaText(d.light_alpha)
                      ELSE "1.000")
              /\ Descriptor(n).colors[Len(Descriptor(n).colors)].color.components.alpha =
                     (IF "dark_alpha" \in DOMAIN d THEN AlphaText(d.dark_alpha)
                      ELSE "1.000")

C8_Witness ==
    /\ pc = "print"
    /\ Produced(name)
    /\ "light_alpha" \in DOMAIN color_def
    /\ "dark_alpha" \notin DOMAIN color_def

(***************************************************************************)
(* C9: at every point of a run the console holds exactly one confirmation  *)
(* line for each entry processed to its end, in table order, and every     *)
(* entry confirmed there has had its Contents.json written by this run.    *)
(***************************************************************************)
C9_ConfirmedAfterWritten ==
    LET finished == IF pc = "done" THEN Len(colors) ELSE i - 1
    IN  /\ stdout = [k \in 1..finished |-> ConfirmationLine(colors[k].name)]
        /\ \A k \in 1..Len(stdout) : Produced(colors[k].name)

C9_Witness ==
    /\ pc = "print"
    /\ i = 2
    /\ Len(stdout) = 1
    /\ Produced(name)

====
